---- MODULE Spec2Model ----
(***************************************************************************)
(* Model of dashboard_solped_oc.py: the ingestion, classification,         *)
(* metrics, filtering and "Sin OC" analysis pipeline that main() runs on   *)
(* every interaction.                                                      *)
(*                                                                         *)
(* Text is a sequence of one-character strings, so that str.strip() and    *)
(* the comparison with the sentinel texts are computed, not assumed.       *)
(* A cell of a table is a record [k, s, n]: k = "str" (text s), "nan"      *)
(* (missing value) or "num" (integer n).  A DataFrame is a record          *)
(* [isNone, columns, index, rows]; rows[i][j] is the cell of row i in the  *)
(* column at position j.  pandas calls are modelled with the behaviour the *)
(* code relies on: astype(str) prints a missing value as "nan", assigning  *)
(* to an existing column label overwrites it, a Grouper with a monthly     *)
(* frequency lays out every month between the first and the last date.     *)
(***************************************************************************)
EXTENDS Integers, Sequences, FiniteSets, TLC

\* ---------------------------------------------------------------- bounds
MaxPad == 1        \* whitespace characters put around a Doc.Compra text
MaxRows == 2       \* data rows of a multi-record table

\* ------------------------------------------------------------ text values
DocCompra == <<"D","o","c",".","C","o","m","p","r","a">>
TieneOC == <<"T","i","e","n","e"," ","O","C">>
SinOC == <<"S","i","n"," ","O","C">>
ConOC == <<"C","o","n"," ","O","C">>
Todos == <<"T","o","d","o","s">>
Solicitante == <<"S","o","l","i","c","i","t","a","n","t","e">>
Centro == <<"C","e","n","t","r","o">>
FechaMod == <<"F","e","c","h","a"," ","M","o","d",".">>
FechaSol == <<"F","e","c","h","a"," ","S","o","l",".">>
Cantidad == <<"C","a","n","t","i","d","a","d">>
SOLPED == <<"S","O","L","P","E","D">>

EnBlanco == <<"(","e","n"," ","b","l","a","n","c","o",")">>
NanText == <<"n","a","n">>
NoneText == <<"N","o","n","e">>

\* ------------------------------------------------------------------ cells
Str(s) == [k |-> "str", s |-> s, n |-> 0]
NaN == [k |-> "nan", s |-> <<>>, n |-> 0]
Num(n) == [k |-> "num", s |-> <<>>, n |-> n]

DigitChars == <<"0","1","2","3","4","5","6","7","8","9">>

RECURSIVE ToDigits(_)
ToDigits(n) ==
    IF n < 10 THEN <<DigitChars[n + 1]>>
    ELSE ToDigits(n \div 10) \o <<DigitChars[(n % 10) + 1]>>

\* Series.astype(str) on one cell: str(value)
astype_str(c) ==
    CASE c.k = "str" -> c.s
      [] c.k = "nan" -> NanText
      [] c.k = "num" -> ToDigits(c.n)

IsSpace(ch) == ch \in {" ", "\t", "\n", "\r"}

RECURSIVE lstrip(_)
lstrip(s) ==
    IF s = <<>> THEN s
    ELSE IF IsSpace(Head(s)) THEN lstrip(Tail(s)) ELSE s

RECURSIVE rstrip(_)
rstrip(s) ==
    IF s = <<>> THEN s
    ELSE IF IsSpace(s[Len(s)]) THEN rstrip(SubSeq(s, 1, Len(s) - 1)) ELSE s

\* str.strip(): leading and trailing whitespace removed
strip(s) == rstrip(lstrip(s))

\* a list that misses one of the four texts
SinOcValuesWithoutNone == {EnBlanco, NanText, <<>>}

\* the list handed to isin() when the mask is built
SinOcValues == {EnBlanco, NanText, <<>>, NoneText}

\* sin_oc_mask.map({True: 'Sin OC', False: 'Con OC'}) on one stripped text
TieneOcOf(text) == IF text \in SinOcValues THEN SinOC ELSE ConOC

\* ------------------------------------------------------------- DataFrames
None == [isNone |-> TRUE, columns |-> <<>>, index |-> <<>>, rows |-> <<>>]
DataFrame(cols, idx, rows) ==
    [isNone |-> FALSE, columns |-> cols, index |-> idx, rows |-> rows]

RangeIndex(n) == [i \in 1..n |-> i - 1]

\* positions of the columns labelled `name`
ColIdx(df, name) == {j \in 1..Len(df.columns) : df.columns[j] = Str(name)}

\* name in data.columns
HasColumn(df, name) == ColIdx(df, name) # {}

\* data[name] when exactly one column carries the label: its cells, in row order
Column(df, name) ==
    LET j == CHOOSE x \in ColIdx(df, name) : TRUE
    IN  [i \in 1..Len(df.rows) |-> df.rows[i][j]]

\* data[name] = vals: an existing column is overwritten in place, a new one
\* is appended as the last column
SetColumn(df, name, vals) ==
    IF HasColumn(df, name)
    THEN [df EXCEPT !.rows =
            [i \in 1..Len(df.rows) |->
                [j \in 1..Len(df.columns) |->
                    IF j \in ColIdx(df, name) THEN vals[i] ELSE df.rows[i][j]]]]
    ELSE [df EXCEPT !.columns = Append(df.columns, Str(name)),
                    !.rows = [i \in 1..Len(df.rows) |->
                                  Append(df.rows[i], vals[i])]]

\* a classification that returns early when Tiene OC is already a column
ClassifyUnlessPresent(df) ==
    IF HasColumn(df, TieneOC) THEN df
    ELSE LET stripped == [i \in 1..Len(df.rows) |->
                            Str(strip(astype_str(Column(df, DocCompra)[i])))]
             cleaned == SetColumn(df, DocCompra, stripped)
             status == [i \in 1..Len(df.rows) |-> Str(TieneOcOf(stripped[i].s))]
         IN  SetColumn(cleaned, TieneOC, status)

\* The three statements every classification site repeats: Doc.Compra is
\* replaced by its stripped text, and Tiene OC is set from the mask.
Classify(df) ==
    LET stripped == [i \in 1..Len(df.rows) |->
                        Str(strip(astype_str(Column(df, DocCompra)[i])))]
        cleaned == SetColumn(df, DocCompra, stripped)
        status == [i \in 1..Len(df.rows) |-> Str(TieneOcOf(stripped[i].s))]
    IN  SetColumn(cleaned, TieneOC, status)


\* ------------------------------------------------------- load_solped_data
\* outcome of a call: exc = "" and the value returned, or the exception raised
Return(df) == [exc |-> "", arg |-> <<>>, df |-> df]
Raise(exc, arg) == [exc |-> exc, arg |-> arg, df |-> None]

\* a slice that starts one row early
iloc_from_row_before(raw, k) ==
    LET n == IF Len(raw) > k - 1 THEN Len(raw) - (k - 1) ELSE 0
    IN  [index |-> [i \in 1..n |-> k + i - 2],
         rows |-> [i \in 1..n |-> raw[k + i - 1]]]

\* raw.iloc[k:] on a grid whose rows carry the labels 0..n-1 (k is 0-based)
iloc_from(raw, k) ==
    LET n == IF Len(raw) > k THEN Len(raw) - k ELSE 0
    IN  [index |-> [i \in 1..n |-> k + i - 1],
         rows |-> [i \in 1..n |-> raw[k + i]]]

\* reset_index(drop=True)
reset_index(part) == [part EXCEPT !.index = RangeIndex(Len(part.rows))]

\* header = raw.iloc[2].tolist(): the third row of the grid
HeaderRow(raw) == raw[3]

\* data[name].astype(str).str...: KeyError when no column carries the label,
\* AttributeError when several do (the selection is then a DataFrame)
StrAccessor(df, name) ==
    IF ~HasColumn(df, name) THEN Raise("KeyError", name)
    ELSE IF Cardinality(ColIdx(df, name)) > 1 THEN Raise("AttributeError", <<>>)
    ELSE Return(df)

\* a loader that refuses a grid without a data row
load_solped_data_needs_data_row(raw) ==
    IF Len(raw) < 4 THEN Raise("IndexError", <<>>)
    ELSE LET part == reset_index(iloc_from(raw, 3))
             data == DataFrame(HeaderRow(raw), part.index, part.rows)
             acc == StrAccessor(data, DocCompra)
         IN  IF acc.exc # "" THEN acc ELSE Return(Classify(data))

\* the frame `data` once its columns are set: the rows from index 3 on,
\* relabelled from 0, under the labels of the header row
header_and_data(raw) ==
    LET part == reset_index(iloc_from(raw, 3))
    IN  DataFrame(HeaderRow(raw), part.index, part.rows)

\* raw.iloc[2] raises IndexError on a grid of fewer than 3 rows
load_solped_data(raw) ==
    IF Len(raw) < 3 THEN Raise("IndexError", <<>>)
    ELSE LET data == header_and_data(raw)
             acc == StrAccessor(data, DocCompra)
         IN  IF acc.exc # "" THEN acc ELSE Return(Classify(data))

\* ------------------------------------------------ load_solped_from_google
\* a loader that calls read_csv a second time when the first call fails
load_solped_from_google_retrying(net) ==
    LET fetch == IF net[1].ok THEN net[1] ELSE net[2]
        calls == IF net[1].ok THEN 1 ELSE 2
    IN  IF ~fetch.ok THEN [calls |-> calls, df |-> None]
        ELSE LET data == DataFrame(fetch.table.columns,
                                   RangeIndex(Len(fetch.table.rows)),
                                   fetch.table.rows)
             IN  [calls |-> calls,
                  df |-> IF HasColumn(data, DocCompra) THEN Classify(data) ELSE data]

\* net is what the network would answer to successive pd.read_csv(url)
\* calls: [ok |-> FALSE] stands for any exception raised by a call, otherwise
\* table is the parsed, header-complete table.  The function calls read_csv
\* once, so it reads net[1] only; calls is the number of calls made.
load_solped_from_google(net) ==
    LET fetch == net[1]
    IN  IF ~fetch.ok THEN [calls |-> 1, df |-> None]
        ELSE LET data == DataFrame(fetch.table.columns,
                                   RangeIndex(Len(fetch.table.rows)),
                                   fetch.table.rows)
             IN  [calls |-> 1,
                  df |-> IF HasColumn(data, DocCompra) THEN Classify(data) ELSE data]

\* -------------------------------------------------------- compute_metrics
CountEq(df, name, text) ==
    Cardinality({i \in 1..Len(df.rows) : Column(df, name)[i] = Str(text)})

compute_metrics(data) ==
    [total |-> Len(data.rows),
     con_oc |-> CountEq(data, TieneOC, ConOC),
     sin_oc |-> CountEq(data, TieneOC, SinOC)]

\* main, the step before compute_metrics: classify only when Tiene OC is
\* absent and Doc.Compra is present
EnsureTieneOC(data) ==
    IF ~HasColumn(data, TieneOC) /\ HasColumn(data, DocCompra)
    THEN Classify(data) ELSE data

\* ---------------------------------------------------------------- filters
\* data[col].dropna().unique(): the options offered by a multiselect
Options(data, name) ==
    IF HasColumn(data, name)
    THEN {Column(data, name)[i] : i \in 1..Len(data.rows)} \ {NaN}
    ELSE {}

RECURSIVE KeptFrom(_, _, _)
\* positions i..n of the rows that satisfy the mask, in ascending order
KeptFrom(mask, i, n) ==
    IF i > n THEN <<>>
    ELSE IF mask[i] THEN <<i>> \o KeptFrom(mask, i + 1, n)
    ELSE KeptFrom(mask, i + 1, n)

\* df[mask]: boolean indexing keeps the rows and their index labels
BoolIndex(df, mask) ==
    LET kept == KeptFrom(mask, 1, Len(df.rows))
    IN  [df EXCEPT !.index = [k \in 1..Len(kept) |-> df.index[kept[k]]],
                   !.rows = [k \in 1..Len(kept) |-> df.rows[kept[k]]]]

\* df[df[name].isin(selected)]
FilterIsin(df, name, selected) ==
    BoolIndex(df, [i \in 1..Len(df.rows) |-> Column(df, name)[i] \in selected])

\* df[df[name] == text]
FilterEq(df, name, text) ==
    BoolIndex(df, [i \in 1..Len(df.rows) |-> Column(df, name)[i] = Str(text)])

\* a requester filter that takes an empty selection literally
BySolicitanteLiteral(df, selected_solicitantes) ==
    IF HasColumn(df, Solicitante)
    THEN FilterIsin(df, Solicitante, selected_solicitantes) ELSE df

BySolicitante(df, selected_solicitantes) ==
    IF HasColumn(df, Solicitante) /\ selected_solicitantes # {}
    THEN FilterIsin(df, Solicitante, selected_solicitantes) ELSE df

ByCentro(df, selected_centros) ==
    IF HasColumn(df, Centro) /\ selected_centros # {}
    THEN FilterIsin(df, Centro, selected_centros) ELSE df

ByEstado(df, estado_oc) ==
    IF estado_oc # Todos THEN FilterEq(df, TieneOC, estado_oc) ELSE df

\* main, "Aplicar filtros": the three constraints in the order of the code
ApplyFilters(data, selected_solicitantes, selected_centros, estado_oc) ==
    ByEstado(ByCentro(BySolicitante(data, selected_solicitantes),
                      selected_centros), estado_oc)


\* --------------------------------------------------- analysis of "Sin OC"
RECURSIVE ParseNat(_, _)
\* the number written by the decimal digits s, read after the value acc;
\* -1 when a character is no digit
ParseNat(s, acc) ==
    IF s = <<>> THEN acc
    ELSE IF \E d \in 1..10 : DigitChars[d] = Head(s)
         THEN ParseNat(Tail(s),
                       acc * 10 + (CHOOSE d \in 1..10 : DigitChars[d] = Head(s)) - 1)
         ELSE -1

\* a text read as a number: digits around which whitespace is allowed
NumberOf(s) == IF strip(s) = <<>> THEN -1 ELSE ParseNat(strip(s), 0)

RECURSIVE Split(_, _)
\* s.split(sep)
Split(s, sep) ==
    IF \A i \in 1..Len(s) : s[i] # sep THEN <<s>>
    ELSE LET i == CHOOSE x \in 1..Len(s) :
                     s[x] = sep /\ \A y \in 1..(x - 1) : s[y] # sep
         IN  <<SubSeq(s, 1, i - 1)>> \o Split(SubSeq(s, i + 1, Len(s)), sep)

NaT == [nat |-> TRUE, y |-> 0, m |-> 0, d |-> 0]

\* pd.to_datetime(..., errors='coerce', dayfirst=True) on one cell: a text
\* "d/m/y" is read day first; any other text and a missing value give NaT;
\* an integer counts nanoseconds from 1970-01-01
to_datetime(c) ==
    CASE c.k = "nan" -> NaT
      [] c.k = "num" -> [nat |-> FALSE, y |-> 1970, m |-> 1, d |-> 1]
      [] c.k = "str" ->
            LET parts == Split(strip(c.s), "/")
            IN  IF Len(parts) # 3 THEN NaT
                ELSE LET d == NumberOf(parts[1])
                         m == NumberOf(parts[2])
                         y == NumberOf(parts[3])
                     IN  IF d \in 1..31 /\ m \in 1..12 /\ y >= 1
                         THEN [nat |-> FALSE, y |-> y, m |-> m, d |-> d]
                         ELSE NaT

\* months counted from year 0
MonthNo(t) == t.y * 12 + (t.m - 1)

\* .dt.to_period('M').dt.to_timestamp(): the first day of the month
Periodo(monthNo) == <<monthNo \div 12, (monthNo % 12) + 1, 1>>

Min(S) == CHOOSE x \in S : \A y \in S : x <= y
Max(S) == CHOOSE x \in S : \A y \in S : x >= y

RECURSIVE Ascending(_)
\* sort_values: the numbers of a set in ascending order
Ascending(S) ==
    IF S = {} THEN <<>> ELSE <<Min(S)>> \o Ascending(S \ {Min(S)})

\* bins for the months that hold a date only
GrouperBinsObserved(months) == Ascending(months)

\* the bins groupby(pd.Grouper(key=..., freq='M')) lays out over the dates
\* that survive dropna(): every month from the earliest to the latest
GrouperBins(months) ==
    IF months = {} THEN <<>>
    ELSE [k \in 1..(Max(months) - Min(months) + 1) |-> Min(months) + k - 1]

\* to_datetime, dropna, groupby(Grouper).size(), Periodo, on column `name`
MonthlyCounts(missing, name) ==
    LET dates == [i \in 1..Len(missing.rows) |-> to_datetime(Column(missing, name)[i])]
        alive == {i \in 1..Len(missing.rows) : ~dates[i].nat}
        bins == GrouperBins({MonthNo(dates[i]) : i \in alive})
    IN  [k \in 1..Len(bins) |->
            [Periodo |-> Periodo(bins[k]),
             Cantidad |-> Cardinality({i \in alive : MonthNo(dates[i]) = bins[k]})]]

\* pd.to_numeric(..., errors='coerce') on one cell; -1 stands for NaN
to_numeric(c) ==
    CASE c.k = "nan" -> -1
      [] c.k = "num" -> c.n
      [] c.k = "str" -> NumberOf(c.s)

\* to_numeric, dropna, groupby('Cantidad').size(), sort_values
QuantityCounts(missing) ==
    LET qty == [i \in 1..Len(missing.rows) |-> to_numeric(Column(missing, Cantidad)[i])]
        alive == {i \in 1..Len(missing.rows) : qty[i] # -1}
        vals == Ascending({qty[i] : i \in alive})
    IN  [k \in 1..Len(vals) |->
            [Cantidad |-> vals[k],
             Frecuencia |-> Cardinality({i \in alive : qty[i] = vals[k]})]]

\* an analysis section that reads the filtered view
MissingOfFilteredView(data, filtered_data) == FilterEq(filtered_data, TieneOC, SinOC)

\* what the analysis section reads: the rows of `data` with Tiene OC = 'Sin OC'
Missing(data, filtered_data) == FilterEq(data, TieneOC, SinOC)

NoChart == <<>>

\* the three aggregations of the section, each only when its column exists
Analysis(missing) ==
    [fmod |-> IF HasColumn(missing, FechaMod)
              THEN MonthlyCounts(missing, FechaMod) ELSE NoChart,
     fsol |-> IF HasColumn(missing, FechaSol)
              THEN MonthlyCounts(missing, FechaSol) ELSE NoChart,
     qty |-> IF HasColumn(missing, Cantidad)
             THEN QuantityCounts(missing) ELSE NoChart]


\* ----------------------------------------------------------------- inputs
Pendiente == <<"P","e","n","d","i","e","n","t","e">>
PO55 == <<"P","O","-","5","5">>
NaNUpper == <<"N","a","N">>
NoneLower == <<"n","o","n","e">>
EnBlancoUpper == <<"(","E","n"," ","b","l","a","n","c","o",")">>
TabNanNewline == <<"\t","n","a","n","\n">>
Ana == <<"A","n","a">>
Luis == <<"L","u","i","s">>
C1 == <<"C","1">>
C2 == <<"C","2">>
D15Nov2024 == <<"1","5","/","1","1","/","2","0","2","4">>
D15Dic2024 == <<"1","5","/","1","2","/","2","0","2","4">>
D10Ene2025 == <<"1","0","/","0","1","/","2","0","2","5">>
D03Feb2025 == <<"0","3","/","0","2","/","2","0","2","5">>
D20Feb2025 == <<"2","0","/","0","2","/","2","0","2","5">>
D03Abr2025 == <<"0","3","/","0","4","/","2","0","2","5">>
SinFecha == <<"s","/","f">>
Cinco == <<"5">>
Equis == <<"x">>
SAP == <<"S","A","P">>
DocCompraSp == <<"D","o","c",".","C","o","m","p","r","a"," ">>

Pad(n) == [i \in 1..n |-> " "]

\* Doc.Compra texts: the four sentinels, near misses that differ in case,
\* and a document number, each with 0..MaxPad blanks on either side
DocCores == {<<>>, NanText, NoneText, EnBlanco, NaNUpper, NoneLower,
             EnBlancoUpper, PO55, TabNanNewline}
DocTexts == {Pad(l) \o core \o Pad(r) :
                l \in 0..MaxPad, r \in 0..MaxPad, core \in DocCores}
DocCells == {Str(x) : x \in DocTexts} \cup {NaN, Num(45)}

Labels(names) == [j \in 1..Len(names) |-> Str(names[j])]
Table(names, rows) == [columns |-> Labels(names), rows |-> rows]
SeqsUpTo(S, n) == UNION {[1..k -> S] : k \in 0..n}

\* one record, every form of Doc.Compra
ClassifyTables == {Table(<<SOLPED, DocCompra>>, <<<<Num(1001), c>>>>) : c \in DocCells}

\* tables that bring their own Tiene OC column, with and without Doc.Compra
OwnStatusRows == {<<Num(1001), Str(SinOC)>>, <<Num(1002), Str(ConOC)>>,
                  <<Num(1003), Str(Pendiente)>>}
BothRows == {<<NaN, Str(ConOC)>>, <<Str(PO55), Str(SinOC)>>,
             <<NaN, Str(SinOC)>>, <<Str(PO55), Str(Pendiente)>>}
OwnStatusTables ==
    {Table(<<SOLPED, TieneOC>>, r) : r \in SeqsUpTo(OwnStatusRows, MaxRows)}
    \cup {Table(<<DocCompra, TieneOC>>, r) : r \in SeqsUpTo(BothRows, MaxRows)}

\* tables with neither Doc.Compra nor Tiene OC
PlainRows == {<<Num(1001), Str(Ana)>>, <<Num(1002), Str(Luis)>>}
PlainTables == {Table(<<SOLPED, Solicitante>>, r) : r \in SeqsUpTo(PlainRows, MaxRows)}

FilterRows == {<<NaN, Str(Ana), Str(C1)>>, <<Str(PO55), Str(Ana), Str(C2)>>,
               <<NaN, Str(Luis), Str(C2)>>, <<Str(PO55), Str(Luis), Str(C1)>>,
               <<NaN, NaN, Str(C1)>>, <<Str(PO55), Str(Ana), Str(C1)>>}
FilterTables ==
    {Table(<<DocCompra, Solicitante, Centro>>, r) : r \in SeqsUpTo(FilterRows, MaxRows)}

DateRows == {<<NaN, Str(Ana), Str(D15Nov2024)>>, <<NaN, Str(Luis), Str(D10Ene2025)>>,
             <<NaN, Str(Ana), Str(D15Dic2024)>>, <<NaN, Str(Luis), Str(SinFecha)>>,
             <<Str(PO55), Str(Ana), Str(D10Ene2025)>>, <<NaN, Str(Ana), NaN>>}
DateTables ==
    {Table(<<DocCompra, Solicitante, FechaSol>>, r) : r \in SeqsUpTo(DateRows, MaxRows)}

QtyRows == {<<NaN, Str(D03Feb2025), Num(5)>>, <<NaN, Str(D20Feb2025), Str(Cinco)>>,
            <<NaN, NaN, Str(Equis)>>, <<NaN, Str(SinFecha), Num(2)>>,
            <<Str(PO55), Str(D03Feb2025), Num(7)>>, <<NaN, Str(D03Abr2025), NaN>>}
QtyTables ==
    {Table(<<DocCompra, FechaMod, Cantidad>>, r) : r \in SeqsUpTo(QtyRows, MaxRows)}

\* what read_csv can return: column labels are unique (read_csv renames
\* repeated ones)
RemoteTables == ClassifyTables \cup OwnStatusTables \cup PlainTables
                \cup FilterTables \cup DateTables \cup QtyTables

EmptyTable == [columns |-> <<>>, rows |-> <<>>]
Failed == [ok |-> FALSE, table |-> EmptyTable]
Fetched(table) == [ok |-> TRUE, table |-> table]

\* the answer to a first call, and the answer a second call would get
Nets == {<<Fetched(x), Failed>> : x \in RemoteTables}
        \cup {<<Failed, Failed>>,
              <<Failed, Fetched(Table(<<SOLPED, DocCompra>>, <<<<Num(1001), Str(PO55)>>>>))>>}

\* local grids: two leading rows, the header row, the data rows
Blank(w) == [j \in 1..w |-> NaN]
Title(w) == [j \in 1..w |-> IF j = 1 THEN Str(SAP) ELSE NaN]
Leading(w) == {<<Blank(w), Blank(w)>>, <<Title(w), Blank(w)>>}

\* headers only a local grid can carry: a repeated label, a label with a
\* trailing blank, a missing label
DupRows == {<<Num(1001), NaN, Num(7)>>, <<Num(1002), Str(PO55), Num(8)>>}
LocalOnlyTables ==
    {[columns |-> h, rows |-> r] :
        h \in {<<Str(SOLPED), Str(DocCompra), Str(SOLPED)>>,
               <<Str(DocCompra), Str(SOLPED), Str(DocCompra)>>,
               <<Str(SOLPED), Str(DocCompraSp), NaN>>,
               <<NaN, Str(DocCompra), Str(TieneOC)>>},
        r \in SeqsUpTo(DupRows, MaxRows)}

LocalTables == RemoteTables \cup LocalOnlyTables

GridsOf(x) == {lead \o <<x.columns>> \o x.rows : lead \in Leading(Len(x.columns))}

\* grids too short to hold a header row at index 2
ShortGrids == {<<>>, <<Blank(2)>>, <<Labels(<<SOLPED, DocCompra>>)>>,
               <<Blank(2), Blank(2)>>,
               <<Labels(<<SOLPED, DocCompra>>), <<Num(1001), NaN>>>>}

Grids == ShortGrids \cup UNION {GridsOf(x) : x \in LocalTables}

NoFile == [present |-> FALSE, raw |-> <<>>]
Upload(raw) == [present |-> TRUE, raw |-> raw]

\* a text_input left empty, or filled in
TextInputs == {<<>>, <<"i","d">>}

\* ------------------------------------------------------------------ state
VARIABLES
    pc,                     \* position of main
    source_option,          \* the radio of the sidebar
    uploaded_file,          \* the uploaded grid, if any
    net,                    \* what the network answers to read_csv calls
    fetches,                \* read_csv calls made in this run
    data,                   \* main's data
    messages,               \* st.error / st.info calls, in order
    exc,                    \* exception that left main, "" if none
    metrics,                \* (total, con_oc, sin_oc)
    selected_solicitantes, selected_centros, estado_oc,
    filtered_data,
    charts                  \* counts_fmod, counts_fsol, counts_qty

vars == <<pc, source_option, uploaded_file, net, fetches, data, messages, exc,
          metrics, selected_solicitantes, selected_centros, estado_oc,
          filtered_data, charts>>

Predefinido == "Google Sheet (predefinido)"
ArchivoLocal == "Archivo local"
Personalizado == "Google Sheet personalizado"
SourceOptions == {Predefinido, ArchivoLocal, Personalizado}

NoMetrics == [total |-> 0, con_oc |-> 0, sin_oc |-> 0]
NoCharts == [fmod |-> NoChart, fsol |-> NoChart, qty |-> NoChart]

Error(about) == [kind |-> "error", about |-> about]
Info == [kind |-> "info", about |-> <<>>]

Init ==
    /\ pc = "source"
    /\ source_option = Predefinido
    /\ uploaded_file = NoFile
    /\ net = <<Failed, Failed>>
    /\ fetches = 0
    /\ data = None
    /\ messages = <<>>
    /\ exc = ""
    /\ metrics = NoMetrics
    /\ selected_solicitantes = {}
    /\ selected_centros = {}
    /\ estado_oc = Todos
    /\ filtered_data = None
    /\ charts = NoCharts

\* st.sidebar.radio
SelectSource ==
    /\ pc = "source"
    /\ source_option' \in SourceOptions
    /\ pc' = "load"
    /\ UNCHANGED <<uploaded_file, net, fetches, data, messages, exc, metrics,
                   selected_solicitantes, selected_centros, estado_oc,
                   filtered_data, charts>>

\* data = load_solped_from_google(...); if data is None: st.error; return
FromGoogle(answers) ==
    LET r == load_solped_from_google(answers)
    IN  /\ net' = answers
        /\ fetches' = fetches + r.calls
        /\ data' = r.df
        /\ IF r.df.isNone
           THEN messages' = Append(messages, Error(<<>>)) /\ pc' = "stopped"
           ELSE messages' = messages /\ pc' = "content"

LoadPredefined ==
    /\ pc = "load" /\ source_option = Predefinido
    /\ \E answers \in Nets : FromGoogle(answers)
    /\ UNCHANGED <<source_option, uploaded_file, exc, metrics,
                   selected_solicitantes, selected_centros, estado_oc,
                   filtered_data, charts>>

\* the file_uploader branch: try load_solped_data, except: st.error; return
LoadLocal ==
    /\ pc = "load" /\ source_option = ArchivoLocal
    /\ \E up \in {NoFile} \cup {Upload(g) : g \in Grids} :
        /\ uploaded_file' = up
        /\ IF ~up.present
           THEN data' = data /\ messages' = messages /\ pc' = "content"
           ELSE LET r == load_solped_data(up.raw)
                IN  IF r.exc # ""
                    THEN /\ data' = data
                         /\ messages' = Append(messages, Error(r.arg))
                         /\ pc' = "stopped"
                    ELSE /\ data' = r.df
                         /\ messages' = messages
                         /\ pc' = "content"
    /\ UNCHANGED <<source_option, net, fetches, exc, metrics,
                   selected_solicitantes, selected_centros, estado_oc,
                   filtered_data, charts>>

\* the two text_inputs: the sheet is fetched only when both are non-empty
LoadCustom ==
    /\ pc = "load" /\ source_option = Personalizado
    /\ \E sheet_id \in TextInputs, gid \in TextInputs :
        IF sheet_id # <<>> /\ gid # <<>>
        THEN \E answers \in Nets : FromGoogle(answers)
        ELSE UNCHANGED <<net, fetches, data, messages>> /\ pc' = "content"
    /\ UNCHANGED <<source_option, uploaded_file, exc, metrics,
                   selected_solicitantes, selected_centros, estado_oc,
                   filtered_data, charts>>

\* else: st.info(...)
ShowInfo ==
    /\ pc = "content" /\ data.isNone
    /\ messages' = Append(messages, Info)
    /\ pc' = "done"
    /\ UNCHANGED <<source_option, uploaded_file, net, fetches, data, exc, metrics,
                   selected_solicitantes, selected_centros, estado_oc,
                   filtered_data, charts>>

\* if data is not None: the Tiene OC fallback, then compute_metrics, whose
\* data['Tiene OC'] raises KeyError out of main when the column is absent
ShowMetrics ==
    /\ pc = "content" /\ ~data.isNone
    /\ data' = EnsureTieneOC(data)
    /\ IF HasColumn(data', TieneOC)
       THEN metrics' = compute_metrics(data') /\ exc' = exc /\ pc' = "filters"
       ELSE metrics' = metrics /\ exc' = "KeyError" /\ pc' = "crashed"
    /\ UNCHANGED <<source_option, uploaded_file, net, fetches, messages,
                   selected_solicitantes, selected_centros, estado_oc,
                   filtered_data, charts>>

\* the sidebar filters and "Aplicar filtros"
SelectFilters ==
    /\ pc = "filters"
    /\ \E ss \in SUBSET Options(data, Solicitante),
          sc \in SUBSET Options(data, Centro),
          e \in {Todos, ConOC, SinOC} :
        /\ selected_solicitantes' = ss
        /\ selected_centros' = sc
        /\ estado_oc' = e
        /\ filtered_data' = ApplyFilters(data, ss, sc, e)
    /\ pc' = "analysis"
    /\ UNCHANGED <<source_option, uploaded_file, net, fetches, data, messages,
                   exc, metrics, charts>>

\* if 'Sin OC' in data['Tiene OC'].unique(): the analysis section
Analyse ==
    /\ pc = "analysis"
    /\ charts' = IF CountEq(data, TieneOC, SinOC) > 0
                 THEN Analysis(Missing(data, filtered_data)) ELSE charts
    /\ pc' = "done"
    /\ UNCHANGED <<source_option, uploaded_file, net, fetches, data, messages,
                   exc, metrics, selected_solicitantes, selected_centros,
                   estado_oc, filtered_data>>

\* Streamlit runs main again from the top on the next interaction
Rerun ==
    /\ pc \in {"done", "stopped", "crashed"}
    /\ pc' = "source"
    /\ source_option' = Predefinido
    /\ uploaded_file' = NoFile
    /\ net' = <<Failed, Failed>>
    /\ fetches' = 0
    /\ data' = None
    /\ messages' = <<>>
    /\ exc' = ""
    /\ metrics' = NoMetrics
    /\ selected_solicitantes' = {}
    /\ selected_centros' = {}
    /\ estado_oc' = Todos
    /\ filtered_data' = None
    /\ charts' = NoCharts

Next ==
    \/ SelectSource
    \/ LoadPredefined
    \/ LoadLocal
    \/ LoadCustom
    \/ ShowInfo
    \/ ShowMetrics
    \/ SelectFilters
    \/ Analyse
    \/ Rerun

Spec == Init /\ [][Next]_vars


\* ============================================================== properties
\* the table as it was ingested, before any classification
IsRemote == source_option \in {Predefinido, Personalizado}
Ingested ==
    IF IsRemote
    THEN fetches > 0 /\ net[1].ok
    ELSE uploaded_file.present /\ Len(uploaded_file.raw) >= 3
InputTable ==
    IF IsRemote THEN net[1].table
    ELSE [columns |-> uploaded_file.raw[3],
          rows |-> SubSeq(uploaded_file.raw, 4, Len(uploaded_file.raw))]
Loaded == pc \in {"content", "filters", "analysis", "done"} /\ ~data.isNone

Whitespace == {" ", "\t", "\n", "\r"}

\* t is s without its leading and trailing whitespace
IsTrimOf(t, s) ==
    \E l \in 0..Len(s), r \in 0..Len(s) :
        /\ l + r <= Len(s)
        /\ t = SubSeq(s, l + 1, Len(s) - r)
        /\ \A i \in 1..l : s[i] \in Whitespace
        /\ \A i \in (Len(s) - r + 1)..Len(s) : s[i] \in Whitespace
        /\ t = <<>> \/ (t[1] \notin Whitespace /\ t[Len(t)] \notin Whitespace)

\* the text Python prints for the values the inputs hold
Stringified(c) ==
    IF c = NaN THEN <<"n","a","n">>
    ELSE IF c = Num(45) THEN <<"4","5">> ELSE c.s

Sentinels == {EnBlanco, NanText, <<>>, NoneText}

\* C1: on every ingestion path, a record's Tiene OC is 'Sin OC' exactly when
\* its stringified Doc.Compra, without leading and trailing whitespace, is one
\* of "(en blanco)", "nan", "", "None" (case-sensitive); otherwise 'Con OC'.
C1_StatusIffSentinel ==
    (Loaded /\ Ingested /\ HasColumn(InputTable, DocCompra)) =>
        /\ Cardinality(ColIdx(data, TieneOC)) = 1
        /\ Len(data.rows) = Len(InputTable.rows)
        /\ \A i \in 1..Len(data.rows) :
              LET given == Stringified(Column(InputTable, DocCompra)[i])
                  status == Column(data, TieneOC)[i]
              IN  IF \E t \in Sentinels : IsTrimOf(t, given)
                  THEN status = Str(SinOC) ELSE status = Str(ConOC)

\* a blank-padded "(en blanco)" was classified 'Sin OC' next to nothing else
C1_Witness ==
    /\ Loaded /\ Ingested /\ ~IsRemote
    /\ \E i \in 1..Len(data.rows) :
          /\ HasColumn(InputTable, DocCompra)
          /\ Column(InputTable, DocCompra)[i] = Str(Pad(1) \o EnBlanco \o Pad(1))
          /\ Column(data, TieneOC)[i] = Str(SinOC)

\* C3: the filtered view is exactly the records, in their original order,
\* that pass every active constraint; an empty requester or centre selection
\* is no constraint; the order of the three constraints does not matter.
Passes(i) ==
    /\ selected_solicitantes = {} \/ Column(data, Solicitante)[i] \in selected_solicitantes
    /\ selected_centros = {} \/ Column(data, Centro)[i] \in selected_centros
    /\ estado_oc = Todos \/ Column(data, TieneOC)[i] = Str(estado_oc)

C3_FilteredViewIsConjunction ==
    pc \in {"analysis", "done"} =>
        /\ filtered_data.columns = data.columns
        /\ \A k \in 1..Len(filtered_data.index) :
              /\ filtered_data.index[k] + 1 \in 1..Len(data.rows)
              /\ filtered_data.rows[k] = data.rows[filtered_data.index[k] + 1]
              /\ k > 1 => filtered_data.index[k - 1] < filtered_data.index[k]
        /\ {filtered_data.index[k] + 1 : k \in 1..Len(filtered_data.index)}
              = {i \in 1..Len(data.rows) : Passes(i)}
        /\ filtered_data = BySolicitante(ByCentro(ByEstado(data, estado_oc),
                               selected_centros), selected_solicitantes)
        /\ filtered_data = ByCentro(ByEstado(BySolicitante(data,
                               selected_solicitantes), estado_oc), selected_centros)

\* no requester selected, one centre and one status selected: some records
\* are kept and some are dropped
C3_Witness ==
    /\ pc = "analysis"
    /\ Cardinality(Options(data, Solicitante)) = 2
    /\ selected_solicitantes = {}
    /\ selected_centros = {Str(C1)}
    /\ estado_oc = SinOC
    /\ Len(filtered_data.rows) >= 1
    /\ Len(filtered_data.rows) < Len(data.rows)

\* C5: a remote ingestion calls read_csv once and returns a dataset or None;
\* when it returns None, main shows one error and stops: no metrics, no
\* filtered view, no chart.
C5_SingleFetchOrStop ==
    /\ fetches <= 1
    /\ (IsRemote /\ pc \notin {"source", "load"} /\ (~data.isNone \/ pc = "stopped"))
          => fetches = 1
    /\ (IsRemote /\ fetches = 1) =>
          /\ exc = "" \/ pc = "crashed"
          /\ data.isNone <=> ~net[1].ok
          /\ data.isNone <=> pc = "stopped"
    /\ (IsRemote /\ pc = "stopped") =>
          /\ fetches = 1
          /\ messages = <<Error(<<>>)>>
          /\ exc = ""
          /\ metrics = NoMetrics
          /\ filtered_data = None
          /\ charts = NoCharts

C5_Witness ==
    /\ source_option = Personalizado
    /\ pc = "stopped"
    /\ fetches = 1
    /\ data.isNone
    /\ Len(messages) = 1

\* C6: from a grid of n >= 4 rows, load_solped_data takes the cells of row
\* index 2, in order and with repetitions kept, as the field names, and rows
\* 3..n-1, in order and relabelled 0..n-4, as the n - 3 records.
C6_HeaderOffset ==
    LET raw == uploaded_file.raw
        n == Len(raw)
        frame == header_and_data(raw)
    IN  (~IsRemote /\ uploaded_file.present /\ n >= 4 /\ pc # "load") =>
          /\ frame.columns = raw[3]
          /\ Len(frame.rows) = n - 3
          /\ frame.index = [i \in 1..(n - 3) |-> i - 1]
          /\ \A i \in 1..(n - 3) : frame.rows[i] = raw[3 + i]
          /\ Cardinality({j \in 1..Len(raw[3]) : raw[3][j] = Str(DocCompra)}) = 1
                => Loaded
          /\ Loaded =>
                /\ \A j \in 1..Len(raw[3]) : data.columns[j] = raw[3][j]
                /\ Len(data.columns) \in {Len(raw[3]), Len(raw[3]) + 1}
                /\ Len(data.rows) = n - 3
                /\ data.index = [i \in 1..(n - 3) |-> i - 1]
                /\ \A i \in 1..(n - 3) : \A j \in 1..Len(raw[3]) :
                      raw[3][j] \notin {Str(DocCompra), Str(TieneOC)}
                          => data.rows[i][j] = raw[3 + i][j]

\* a grid with a title row, a repeated SOLPED label and two data rows loaded
C6_Witness ==
    /\ ~IsRemote /\ uploaded_file.present /\ Loaded
    /\ Len(uploaded_file.raw) = 5
    /\ uploaded_file.raw[1][1] = Str(SAP)
    /\ data.columns = <<Str(SOLPED), Str(DocCompra), Str(SOLPED), Str(TieneOC)>>
    /\ Len(data.rows) = 2


\* C2: for every dataset that reaches compute_metrics in main, the triple
\* has total = number of records and con_oc + sin_oc = total.
C2_MetricsPartition ==
    (Ingested /\ ~data.isNone /\ pc \in {"filters", "analysis", "done", "crashed"}) =>
        /\ pc # "crashed"
        /\ metrics.total = Len(data.rows)
        /\ metrics.con_oc + metrics.sin_oc = metrics.total

\* C4: when the header row has no Doc.Compra column, the ingestion is
\* rejected with an error naming the column and no dataset is passed on,
\* on the local path and on the remote path.
C4_MissingColumnRejected ==
    (Ingested /\ pc # "load" /\ ~HasColumn(InputTable, DocCompra)) =>
        /\ pc = "stopped"
        /\ data.isNone
        /\ messages = <<Error(DocCompra)>>

\* C7 as stated: a local grid of fewer than 4 rows is always rejected and
\* never yields a dataset.
C7_FewerThanFourRejected ==
    (~IsRemote /\ uploaded_file.present /\ pc # "load"
        /\ Len(uploaded_file.raw) < 4) =>
        /\ pc = "stopped"
        /\ data.isNone
        /\ Len(messages) = 1 /\ messages[1].kind = "error"

\* C7 amended: a local grid of fewer than 3 rows is always rejected; a grid
\* of exactly 3 rows is rejected unless its header row carries Doc.Compra
\* exactly once, and then it yields an empty dataset.
C7_FewerThanThreeRejected ==
    LET raw == uploaded_file.raw
        rejected == /\ pc = "stopped"
                    /\ data.isNone
                    /\ Len(messages) = 1 /\ messages[1].kind = "error"
    IN  (~IsRemote /\ uploaded_file.present /\ pc # "load" /\ Len(raw) < 4) =>
          IF Len(raw) = 3
                /\ Cardinality({j \in 1..Len(raw[3]) : raw[3][j] = Str(DocCompra)}) = 1
          THEN Loaded /\ data.rows = <<>> /\ messages = <<>>
          ELSE rejected

\* a header-only grid came through as an empty dataset with metrics (0, 0, 0)
C7_Witness ==
    /\ ~IsRemote /\ uploaded_file.present
    /\ Len(uploaded_file.raw) = 3
    /\ pc = "filters"
    /\ data.rows = <<>>
    /\ metrics = [total |-> 0, con_oc |-> 0, sin_oc |-> 0]


\* the month, as its first day, of each date text the inputs hold; <<>> for
\* a text that is no date and for a missing value
ClaimMonth(c) ==
    CASE c = Str(D15Nov2024) -> <<2024, 11, 1>>
      [] c = Str(D15Dic2024) -> <<2024, 12, 1>>
      [] c = Str(D10Ene2025) -> <<2025, 1, 1>>
      [] c = Str(D03Feb2025) -> <<2025, 2, 1>>
      [] c = Str(D20Feb2025) -> <<2025, 2, 1>>
      [] c = Str(D03Abr2025) -> <<2025, 4, 1>>
      [] OTHER -> <<>>

NextMonth(p) == IF p[2] = 12 THEN <<p[1] + 1, 1, 1>> ELSE <<p[1], p[2] + 1, 1>>

\* the records of the whole dataset with Tiene OC = 'Sin OC'
SinOcRows == {i \in 1..Len(data.rows) : Column(data, TieneOC)[i] = Str(SinOC)}
MonthsOf(name) == {ClaimMonth(Column(data, name)[i]) : i \in SinOcRows} \ {<<>>}
Analysed == pc = "done" /\ ~data.isNone
ChartOf(name) == IF name = FechaSol THEN charts.fsol ELSE charts.fmod

\* C8 as stated: the series holds exactly the months in which a 'Sin OC'
\* record with a parseable date falls, so no month with zero records appears.
C8_OnlyNonEmptyMonths ==
    Analysed => \A name \in {FechaSol, FechaMod} :
        HasColumn(data, name) =>
            /\ {ChartOf(name)[k].Periodo : k \in 1..Len(ChartOf(name))} = MonthsOf(name)
            /\ \A k \in 1..Len(ChartOf(name)) : ChartOf(name)[k].Cantidad >= 1

\* C8 amended: the series holds one (first day of month, count) pair for
\* every calendar month from the earliest to the latest month in which a
\* 'Sin OC' record with a parseable date falls, in ascending order; the count
\* is the number of such records in the month, 0 for a month in between;
\* records with an unparseable date are left out of this series only.
C8_EveryMonthOfTheRange ==
    Analysed => \A name \in {FechaSol, FechaMod} :
        HasColumn(data, name) =>
            LET series == ChartOf(name)
                months == MonthsOf(name)
            IN  /\ months = {} => series = <<>>
                /\ months # {} =>
                      /\ Len(series) >= 1
                      /\ series[1].Periodo \in months
                      /\ series[Len(series)].Periodo \in months
                /\ \A m \in months : \E k \in 1..Len(series) : series[k].Periodo = m
                /\ \A k \in 1..(Len(series) - 1) :
                      series[k + 1].Periodo = NextMonth(series[k].Periodo)
                /\ \A k \in 1..Len(series) :
                      series[k].Cantidad = Cardinality(
                          {i \in SinOcRows :
                              ClaimMonth(Column(data, name)[i]) = series[k].Periodo})

\* November 2024 and January 2025 hold a record each, December 2024 none:
\* the series runs over the three months across the year boundary
C8_Witness ==
    /\ Analysed
    /\ Len(charts.fsol) = 3
    /\ charts.fsol[1] = [Periodo |-> <<2024, 11, 1>>, Cantidad |-> 1]
    /\ charts.fsol[2] = [Periodo |-> <<2024, 12, 1>>, Cantidad |-> 0]
    /\ charts.fsol[3] = [Periodo |-> <<2025, 1, 1>>, Cantidad |-> 1]

RECURSIVE Total(_, _)
\* the sum of field f over the pairs of a series
Total(series, f) ==
    IF series = <<>> THEN 0 ELSE Head(series)[f] + Total(Tail(series), f)

ClaimNumeric(c) == c \in {Num(2), Num(5), Num(7), Str(Cinco)}

\* the 'Sin OC' records of a frame whose cell in column `name` can be counted
Countable(df, name) ==
    {k \in 1..Len(df.rows) :
        /\ Column(df, TieneOC)[k] = Str(SinOC)
        /\ IF name = Cantidad THEN ClaimNumeric(Column(df, name)[k])
           ELSE ClaimMonth(Column(df, name)[k]) # <<>>}

\* C9 as stated: the monthly series and the quantity distribution count only
\* records of the current filtered view.
C9_CountsOnlyFilteredView ==
    Analysed =>
        /\ HasColumn(data, FechaSol) =>
              Total(charts.fsol, "Cantidad") <= Cardinality(Countable(filtered_data, FechaSol))
        /\ HasColumn(data, FechaMod) =>
              Total(charts.fmod, "Cantidad") <= Cardinality(Countable(filtered_data, FechaMod))
        /\ HasColumn(data, Cantidad) =>
              Total(charts.qty, "Frecuencia") <= Cardinality(Countable(filtered_data, Cantidad))

\* C9 amended: the monthly series and the quantity distribution are computed
\* from the whole dataset restricted to 'Sin OC', whatever the filters: every
\* 'Sin OC' record with a usable value is counted, also one the requester,
\* centre or status filter excludes from the filtered view.
C9_CountsWholeDataset ==
    Analysed =>
        /\ HasColumn(data, FechaSol) =>
              Total(charts.fsol, "Cantidad") = Cardinality(Countable(data, FechaSol))
        /\ HasColumn(data, FechaMod) =>
              Total(charts.fmod, "Cantidad") = Cardinality(Countable(data, FechaMod))
        /\ HasColumn(data, Cantidad) =>
              Total(charts.qty, "Frecuencia") = Cardinality(Countable(data, Cantidad))

\* the requester filter keeps Luis only, and the record of Ana is counted
C9_Witness ==
    /\ Analysed
    /\ HasColumn(data, FechaSol)
    /\ selected_solicitantes = {Str(Luis)}
    /\ Countable(filtered_data, FechaSol) = {}
    /\ Total(charts.fsol, "Cantidad") = 1

\* C10 as stated: a dataset that already has a Tiene OC column comes out of
\* every classification step with the same Tiene OC values.
C10_ExistingStatusKept ==
    (Loaded /\ Ingested /\ Cardinality(ColIdx(InputTable, TieneOC)) = 1) =>
        /\ Cardinality(ColIdx(data, TieneOC)) = 1
        /\ Column(data, TieneOC) = Column(InputTable, TieneOC)

HadStatus == Cardinality(ColIdx(InputTable, TieneOC)) = 1

\* C10 amended: the fallback step of main leaves a dataset that already has
\* a Tiene OC column unchanged, and no later step alters Tiene OC; a loader
\* keeps an existing Tiene OC column only when there is no Doc.Compra column,
\* otherwise it overwrites the column in place, without adding a second one,
\* with the value computed from Doc.Compra.
C10_StatusSetOnceByLoader ==
    /\ [](Loaded /\ Ingested /\ HadStatus =>
            /\ Cardinality(ColIdx(data, TieneOC)) = 1
            /\ Len(data.columns) = Len(InputTable.columns)
            /\ ~HasColumn(InputTable, DocCompra) =>
                  Column(data, TieneOC) = Column(InputTable, TieneOC)
            /\ HasColumn(InputTable, DocCompra) =>
                  \A i \in 1..Len(data.rows) :
                      Column(data, TieneOC)[i] = Str(SinOC)
                          <=> (\E t \in Sentinels :
                                 IsTrimOf(t, Stringified(Column(InputTable, DocCompra)[i]))))
    /\ [][(Loaded /\ HasColumn(data, TieneOC)) => (pc' = "source" \/ data' = data)]_vars

\* a remote table that said 'Con OC' for a record without document: after
\* the load and the fallback step the record says 'Sin OC'
C10_Witness ==
    /\ IsRemote /\ pc = "filters" /\ Ingested
    /\ InputTable.columns = <<Str(DocCompra), Str(TieneOC)>>
    /\ Len(data.rows) >= 1
    /\ InputTable.rows[1] = <<NaN, Str(ConOC)>>
    /\ data.rows[1] = <<Str(NanText), Str(SinOC)>>
    /\ data.columns = InputTable.columns

====
